---- MODULE Spec2Model ----
(***************************************************************************)
(* Model of time_monitor.cli: the TimeMonitor display loop (run), its      *)
(* terminal session (init_curses / cleanup_curses), the signal handler     *)
(* registered by setup_signal_handlers, and the command-line entry main.   *)
(*                                                                         *)
(* Two specifications share the variables:                                 *)
(*   Spec     one process running main() from the command line, with       *)
(*            SIGINT / SIGTERM delivered at any moment;                    *)
(*   SpecApi  a caller invoking the public methods init_curses and         *)
(*            cleanup_curses of one TimeMonitor in any order, as the unit  *)
(*            tests do.                                                    *)
(*                                                                         *)
(* Intervals are counted in tenths of a millisecond (0.001 s = 10).        *)
(* The curses library is represented by the terminal record `term` and by  *)
(* `calls`, the sequence of library calls issued so far.                   *)
(***************************************************************************)
EXTENDS Integers, Sequences, FiniteSets, TLC

VARIABLES
    pc,               \* control point of the main thread
    interval,         \* --interval option of main
    verbose,          \* --verbose option of main
    update_interval,  \* TimeMonitor.update_interval (0 before construction)
    running,          \* TimeMonitor.running
    stdscr,           \* TimeMonitor.stdscr: "None" or "win"
    sigint_h,         \* disposition of SIGINT: "default" or "handler"
    sigterm_h,        \* disposition of SIGTERM: "default" or "handler"
    term,             \* terminal / curses library state
    calls,            \* curses and time calls issued, in order
    stderr,           \* what was written to standard error, in order
    nlog,             \* number of records handed to the log file
    exc,              \* exception in flight ("none" when there is none)
    thrown,           \* the exception a library call raised last ("none")
    exit_code,        \* process exit status (-1 while the process lives)
    frames,           \* loop iterations entered
    nsig,             \* signals delivered
    sigAt,            \* where the first signal arrived
    key,              \* last result of getch
    height, width,    \* last result of getmaxyx
    y, x,             \* last computed timestamp position
    last_size,        \* what getmaxyx returned the time before
    inbuf,            \* keys typed and not yet polled
    napi              \* SpecApi: method calls made by the caller

vars == <<pc, interval, verbose, update_interval, running, stdscr, sigint_h,
          sigterm_h, term, calls, stderr, nlog, exc, thrown, exit_code,
          frames, nsig, sigAt, key, height, width, y, x, last_size, inbuf,
          napi>>

(* ------------------------------ bounds -------------------------------- *)

MaxFrames == 2

MaxSignals == 2

MaxApiCalls == 3

MaxKeys == 1

(* ------------------------- program constants -------------------------- *)

KEY_q == 113

KEY_Q == 81

KEY_A == 65

NoKey == -1

DefaultInterval == 500

WarnThreshold == 10

TimestampLen == 23

HelpLen == 17

ExitKilledByTerm == 143

Keys == {NoKey, KEY_A, KEY_Q, KEY_q}

Intervals == {-1000, 0, 5, WarnThreshold, DefaultInterval}

TypedKeys == Keys \ {NoKey}

Sizes == {<<24, 80>>, <<25, 23>>, <<10, 20>>, <<1, 26>>, <<2, 20>>, <<0, 0>>}

FrameErrors == {"curses.error", "KeyboardInterrupt"}

FramePrims == {"getch", "clear", "getmaxyx", "addstr", "refresh", "sleep"}

(* ------------------------------ helpers ------------------------------- *)

Max(a, b) == IF a >= b THEN a ELSE b

Count(s, e) == Cardinality({i \in 1..Len(s) : s[i] = e})

Has(s, e) == \E i \in 1..Len(s) : s[i] = e

\* logger.<level>(...): a debug record passes only at level DEBUG (verbose);
\* every passing record goes to the log file, and to stderr when verbose.
LogCount(n, level) == IF level = "debug" /\ ~verbose THEN n ELSE n + 1

LogErr(se, level) == IF verbose THEN Append(se, "log") ELSE se

(* -------------------------- curses library ---------------------------- *)

\* The terminal as the shell left it.
ShellTerm ==
    [initialised |-> FALSE, visual |-> FALSE, echo |-> TRUE, cbreak |-> FALSE,
     keypad |-> FALSE, nodelay |-> FALSE, cursor |-> 1]

\* The effect of one successful curses call on the terminal.
TermApply(t, c) ==
    CASE c = "initscr"       -> [t EXCEPT !.initialised = TRUE, !.visual = TRUE]
      [] c = "noecho"        -> [t EXCEPT !.echo = FALSE]
      [] c = "cbreak"        -> [t EXCEPT !.cbreak = TRUE]
      [] c = "keypad(True)"  -> [t EXCEPT !.keypad = TRUE]
      [] c = "nodelay(True)" -> [t EXCEPT !.nodelay = TRUE]
      [] c = "curs_set(0)"   -> [t EXCEPT !.cursor = 0]
      [] c = "nocbreak"      -> [t EXCEPT !.cbreak = FALSE]
      [] c = "keypad(False)" -> [t EXCEPT !.keypad = FALSE]
      [] c = "echo"          -> [t EXCEPT !.echo = TRUE]
      [] c = "endwin"        -> [t EXCEPT !.visual = FALSE, !.echo = TRUE,
                                          !.cbreak = FALSE, !.keypad = FALSE,
                                          !.cursor = 1]
      [] OTHER               -> t

RECURSIVE TermApplyAll(_, _)
TermApplyAll(t, cs) ==
    IF cs = <<>> THEN t ELSE TermApplyAll(TermApply(t, Head(cs)), Tail(cs))

\* window.addstr(row, col, text) with Len(text) = n on a window of h rows and
\* w columns returns ERR, raised as curses.error, when the position is outside
\* the window or when the text, wrapped at the right margin, reaches the
\* lower right corner.
AddstrErr(row, col, n, h, w) ==
    \/ row < 0
    \/ row >= h
    \/ col < 0
    \/ col >= w
    \/ row * w + col + n >= h * w

\* Raw mode: the terminal is under curses control, or echo / canonical input
\* are still switched off.
RawMode(t) == t.visual \/ ~t.echo \/ t.cbreak

(* ------------------------ TimeMonitor methods ------------------------- *)

\* What a method reads and writes, as one record; `raised` tells whether the
\* method ended by raising `exc`.
Self ==
    [stdscr |-> stdscr, term |-> term, calls |-> calls, nlog |-> nlog,
     stderr |-> stderr, exc |-> exc, thrown |-> thrown, raised |-> FALSE]

\* logger.<level>(...) applied to such a record.
Logged(m, level) ==
    [m EXCEPT !.nlog = LogCount(m.nlog, level),
              !.stderr = IF level = "debug" /\ ~verbose
                         THEN m.stderr ELSE LogErr(m.stderr, level)]

\* A library call c that raises e.
Raising(m, c, e) ==
    [m EXCEPT !.calls = Append(m.calls, c), !.exc = e, !.thrown = e,
              !.raised = TRUE]

\* Library calls cs that all succeed.
Calling(m, cs) ==
    [m EXCEPT !.calls = m.calls \o cs, !.term = TermApplyAll(m.term, cs)]

\* Variant of init_curses that leaves getch in blocking mode.
InitCalls_NoNodelay == <<"noecho", "cbreak", "keypad(True)", "curs_set(0)">>

\* The calls of init_curses after initscr, in program order.
InitCalls == <<"noecho", "cbreak", "keypad(True)", "nodelay(True)", "curs_set(0)">>

InitOk == Len(InitCalls) + 1

\* Outcomes of init_curses: initscr returns no screen ("none"), initscr
\* raises ("raise"), the k-th call after initscr raises (k in 1..5), or
\* every call succeeds (InitOk).
InitOutcomes == 1..InitOk

InitscrOutcomes == {"none", "raise", "win"}

\* Variant of init_curses that does not check what initscr returned.
init_curses_NoNoneCheck(m, i, o) ==
    LET m1 == Logged(m, "debug")
    IN  CASE i = "raise" -> Raising(m1, "initscr", "curses.error")
          [] i = "none" ->
               [m1 EXCEPT !.calls = Append(m1.calls, "initscr"), !.stdscr = "None"]
          [] OTHER ->
               LET m2 == [Calling(m1, <<"initscr">>) EXCEPT !.stdscr = "win"]
                   m3 == Calling(m2, SubSeq(InitCalls, 1, o - 1))
               IN  IF o = InitOk THEN m3
                   ELSE Raising(m3, InitCalls[o], "curses.error")

\* init_curses with initscr outcome i and, when a screen is returned,
\* outcome o of the rest.
init_curses(m, i, o) ==
    LET m1 == Logged(m, "debug")
    IN  CASE i = "raise" -> Raising(m1, "initscr", "curses.error")
          [] i = "none" ->
               [Logged(Raising(m1, "initscr", "RuntimeError"), "error")
                   EXCEPT !.stdscr = "None"]
          [] OTHER ->
               LET m2 == [Calling(m1, <<"initscr">>) EXCEPT !.stdscr = "win"]
                   m3 == Calling(m2, SubSeq(InitCalls, 1, o - 1))
               IN  IF o = InitOk THEN m3
                   ELSE Raising(m3, InitCalls[o], "curses.error")

\* Variant of the teardown calls that leaves echo switched off.
CleanupCalls_NoEcho == <<"nocbreak", "keypad(False)", "endwin">>

\* The calls of cleanup_curses when stdscr is set, in program order.
CleanupCalls == <<"nocbreak", "keypad(False)", "echo", "endwin">>

\* Variant of the guard with the test inverted.
CleanupGuard_Inverted(m) == m.stdscr = "None"

\* The guard of cleanup_curses: `if self.stdscr`.
CleanupGuard(m) == m.stdscr # "None"

\* cleanup_curses.  The module functions of curses raise curses.error unless
\* initscr has been called.
cleanup_curses(m) ==
    LET m1 == Logged(m, "debug")
    IN  IF CleanupGuard(m1)
        THEN IF m1.term.initialised
             THEN Calling(m1, CleanupCalls)
             ELSE Raising(m1, Head(CleanupCalls), "curses.error")
        ELSE m1

\* Store such a record back into the variables.
Store(m) ==
    /\ stdscr' = m.stdscr
    /\ term' = m.term
    /\ calls' = m.calls
    /\ nlog' = m.nlog
    /\ stderr' = m.stderr
    /\ exc' = m.exc
    /\ thrown' = m.thrown

(* ------------------------------- Init --------------------------------- *)

NoSig == [pc |-> "none", n |-> 0]

InitCommon ==
    /\ running = FALSE
    /\ stdscr = "None"
    /\ sigint_h = "default"
    /\ sigterm_h = "default"
    /\ term = ShellTerm
    /\ calls = <<>>
    /\ stderr = <<>>
    /\ nlog = 0
    /\ exc = "none"
    /\ thrown = "none"
    /\ exit_code = -1
    /\ frames = 0
    /\ nsig = 0
    /\ sigAt = NoSig
    /\ key = NoKey
    /\ height = 0
    /\ width = 0
    /\ y = 0
    /\ x = 0
    /\ last_size = <<0, 0>>
    /\ inbuf = <<>>
    /\ napi = 0

Init ==
    /\ pc = "main"
    /\ interval \in Intervals
    /\ verbose \in BOOLEAN
    /\ update_interval = 0
    /\ InitCommon


ctl == <<interval, verbose>>

frameVars == <<key, height, width, y, x, last_size, inbuf>>

sigVars == <<sigint_h, sigterm_h, nsig, sigAt>>

ioVars == <<stdscr, term, calls, nlog, stderr, exc, thrown>>

(* ------------------------------- main --------------------------------- *)

\* Variant of the validation that lets a zero interval through.
InvalidInterval_ZeroAccepted(i) == i < 0

\* main, line 149: the interval is rejected.
InvalidInterval(i) == i <= 0

\* Variant of the warning test that includes the threshold itself.
SmallInterval_Inclusive(i) == i <= WarnThreshold

\* main, line 154: the interval draws the CPU warning.
SmallInterval(i) == i < WarnThreshold

\* main, lines 147-156: the interval is validated before anything else.
MainValidate ==
    /\ pc = "main"
    /\ LET m1 == Logged(Self, "info")
       IN  IF InvalidInterval(interval)
           THEN /\ Store(Logged([m1 EXCEPT !.stderr =
                        Append(m1.stderr, "Error: Interval must be greater than 0")],
                        "error"))
                /\ exit_code' = 1
                /\ pc' = "exited"
           ELSE /\ IF SmallInterval(interval)
                   THEN Store(Logged([m1 EXCEPT !.stderr =
                        Append(m1.stderr, "Warning: Very small intervals may cause high CPU usage")],
                        "warning"))
                   ELSE Store(m1)
                /\ exit_code' = exit_code
                /\ pc' = "construct"
    /\ UNCHANGED <<ctl, update_interval, running, sigVars, frames, frameVars, napi>>

\* TimeMonitor.__init__, called from main line 159.
Construct ==
    /\ pc = "construct"
    /\ update_interval' = interval
    /\ running' = FALSE
    /\ Store([Logged(Self, "info") EXCEPT !.stdscr = "None"])
    /\ pc' = "run"
    /\ UNCHANGED <<ctl, exit_code, sigVars, frames, frameVars, napi>>

\* The message main prints for a propagated exception.
ErrorMessage(e) ==
    IF e = "RuntimeError" THEN "Error: Failed to initialize curses"
    ELSE "Error: curses.error"

\* Variant of main that reports the error and forgets sys.exit(1).
MainAfterRun_ForgetsExit ==
    /\ pc = "run_exit"
    /\ exit_code' = 0
    /\ IF exc = "none"
       THEN UNCHANGED ioVars
       ELSE LET m1 == Logged(Self, "error")
            IN  Store([m1 EXCEPT !.stderr = Append(m1.stderr, ErrorMessage(exc))])
    /\ pc' = "exited"
    /\ UNCHANGED <<ctl, update_interval, running, sigVars, frames, frameVars, napi>>

\* main, lines 160-164: run() has returned or raised.
MainAfterRun ==
    /\ pc = "run_exit"
    /\ IF exc = "none"
       THEN /\ exit_code' = 0
            /\ UNCHANGED ioVars
       ELSE /\ exit_code' = 1
            /\ LET m1 == Logged(Self, "error")
               IN  Store([m1 EXCEPT !.stderr = Append(m1.stderr, ErrorMessage(exc))])
    /\ pc' = "exited"
    /\ UNCHANGED <<ctl, update_interval, running, sigVars, frames, frameVars, napi>>

(* ---------------------------- TimeMonitor.run ------------------------- *)

\* Variant of run() that leaves the flag alone at its start.
RunStart_LeavesIdle ==
    /\ pc = "run"
    /\ Store(Logged(Self, "info"))
    /\ running' = running
    /\ pc' = "reg_int"
    /\ UNCHANGED <<ctl, update_interval, exit_code, sigVars, frames, frameVars, napi>>

\* run, lines 74-75.
RunStart ==
    /\ pc = "run"
    /\ Store(Logged(Self, "info"))
    /\ running' = TRUE
    /\ pc' = "reg_int"
    /\ UNCHANGED <<ctl, update_interval, exit_code, sigVars, frames, frameVars, napi>>

\* setup_signal_handlers, line 37.
RegisterSigint ==
    /\ pc = "reg_int"
    /\ sigint_h' = "handler"
    /\ pc' = "reg_term"
    /\ UNCHANGED <<ctl, update_interval, running, ioVars, exit_code, sigterm_h,
                   nsig, sigAt, frames, frameVars, napi>>

\* Variant of line 38 that leaves SIGTERM at its default disposition.
RegisterSigterm_Unregistered ==
    /\ pc = "reg_term"
    /\ pc' = "init"
    /\ UNCHANGED <<ctl, update_interval, running, ioVars, exit_code, sigint_h,
                   sigterm_h, nsig, sigAt, frames, frameVars, napi>>

\* setup_signal_handlers, line 38; the try block of run is entered next.
RegisterSigterm ==
    /\ pc = "reg_term"
    /\ sigterm_h' = "handler"
    /\ pc' = "init"
    /\ UNCHANGED <<ctl, update_interval, running, ioVars, exit_code, sigint_h,
                   nsig, sigAt, frames, frameVars, napi>>

\* Variant of run() that enters the loop although the open raised.
RunInitCurses_IgnoresFailure ==
    /\ pc = "init"
    /\ \E i \in InitscrOutcomes, o \in InitOutcomes :
          LET r == init_curses(Self, i, o)
          IN  /\ Store(r)
              /\ pc' = "while"
    /\ UNCHANGED <<ctl, update_interval, running, exit_code, sigVars, frames,
                   frameVars, napi>>

\* run, line 79: self.init_curses() inside the try block.
RunInitCurses ==
    /\ pc = "init"
    /\ \E i \in InitscrOutcomes, o \in InitOutcomes :
          LET r == init_curses(Self, i, o)
          IN  /\ Store(r)
              /\ pc' = IF r.raised THEN "except" ELSE "while"
    /\ UNCHANGED <<ctl, update_interval, running, exit_code, sigVars, frames,
                   frameVars, napi>>

\* Variant of the loop condition that gives up after one iteration.
WhileTest_OneShot ==
    /\ pc = "while"
    /\ running => frames < MaxFrames
    /\ IF running /\ frames = 0
       THEN /\ frames' = frames + 1
            /\ pc' = "getch"
       ELSE /\ frames' = frames
            /\ pc' = "finally"
    /\ UNCHANGED <<ctl, update_interval, running, ioVars, exit_code, sigVars,
                   frameVars, napi>>

\* Variant of the loop condition that ignores the flag.
WhileTest_IgnoresFlag ==
    /\ pc = "while"
    /\ frames < MaxFrames
    /\ frames' = frames + 1
    /\ pc' = "getch"
    /\ UNCHANGED <<ctl, update_interval, running, ioVars, exit_code, sigVars,
                   frameVars, napi>>

\* run, line 81: the loop condition.
WhileTest ==
    /\ pc = "while"
    /\ running => frames < MaxFrames
    /\ IF running
       THEN /\ frames' = frames + 1
            /\ pc' = "getch"
       ELSE /\ frames' = frames
            /\ pc' = "finally"
    /\ UNCHANGED <<ctl, update_interval, running, ioVars, exit_code, sigVars,
                   frameVars, napi>>

\* Variant of the quit test that stops on any key.
IsQuit_AnyKey(k) == k # NoKey

\* Variant of the quit test that knows the lower-case key only.
IsQuit_LowerOnly(k) == k = KEY_q

\* Whether a polled key is the quit key (line 85).
IsQuit(k) == k = KEY_q \/ k = KEY_Q

\* window.getch(): the oldest key typed and not yet polled; with no key
\* waiting it returns -1 at once in no-delay mode and waits otherwise.
GetchResult == IF inbuf = <<>> THEN NoKey ELSE Head(inbuf)

\* run, lines 83-87 and 104-107: poll one key and leave the loop on 'q'/'Q'.
Getch ==
    /\ pc = "getch"
    /\ IF stdscr # "None"
       THEN /\ inbuf # <<>> \/ term.nodelay
            /\ key' = GetchResult
            /\ inbuf' = IF inbuf = <<>> THEN inbuf ELSE Tail(inbuf)
            /\ IF IsQuit(GetchResult)
               THEN /\ Store(Logged(Calling(Self, <<"getch">>), "info"))
                    /\ pc' = "finally"
               ELSE /\ Store(Calling(Self, <<"getch">>))
                    /\ pc' = "clear"
       ELSE /\ Store(Logged(Self, "error"))
            /\ key' = key
            /\ inbuf' = inbuf
            /\ pc' = "finally"
    /\ UNCHANGED <<ctl, update_interval, running, exit_code, sigVars, frames,
                   height, width, y, x, last_size, napi>>

\* run, line 90.
Clear ==
    /\ pc = "clear"
    /\ Store(Calling(Self, <<"clear">>))
    /\ pc' = "getmaxyx"
    /\ UNCHANGED <<ctl, update_interval, running, exit_code, sigVars, frames,
                   frameVars, napi>>

\* run, lines 95-96: where the timestamp goes on a screen of h rows, w columns.
CenterRow(h) == h \div 2

\* Variant of the column computation without the clamp at zero.
CenterCol_NoClamp(w) == (w - TimestampLen) \div 2

CenterCol(w) == Max(0, (w - TimestampLen) \div 2)

\* Variant of the frame that keeps the position computed by the first frame.
Getmaxyx_CachesPosition ==
    /\ pc = "getmaxyx"
    /\ \E s \in Sizes :
          /\ height' = s[1]
          /\ width' = s[2]
          /\ y' = IF frames = 1 THEN CenterRow(s[1]) ELSE y
          /\ x' = IF frames = 1 THEN CenterCol(s[2]) ELSE x
    /\ last_size' = <<height, width>>
    /\ Store(Calling(Self, <<"getmaxyx">>))
    /\ pc' = "addstr_time"
    /\ UNCHANGED <<key, inbuf>>
    /\ UNCHANGED <<ctl, update_interval, running, exit_code, sigVars, frames, napi>>

\* run, lines 91-96: format the time, query the size, centre the timestamp.
Getmaxyx ==
    /\ pc = "getmaxyx"
    /\ \E s \in Sizes :
          /\ height' = s[1]
          /\ width' = s[2]
          /\ y' = CenterRow(s[1])
          /\ x' = CenterCol(s[2])
    /\ last_size' = <<height, width>>
    /\ Store(Calling(Self, <<"getmaxyx">>))
    /\ pc' = "addstr_time"
    /\ UNCHANGED <<key, inbuf>>
    /\ UNCHANGED <<ctl, update_interval, running, exit_code, sigVars, frames, napi>>

\* run, line 100: the row of the instruction line.
HelpRow(h) == h - 2

\* Whether the write at a control point of the frame fails.
WriteFailsAt(p) ==
    CASE p = "addstr_time" -> AddstrErr(y, x, TimestampLen, height, width)
      [] p = "addstr_help" -> AddstrErr(HelpRow(height), 0, HelpLen, height, width)
      [] OTHER -> FALSE

\* run, line 99.
AddstrTime ==
    /\ pc = "addstr_time"
    /\ ~WriteFailsAt(pc)
    /\ Store(Calling(Self, <<"addstr">>))
    /\ pc' = "addstr_help"
    /\ UNCHANGED <<ctl, update_interval, running, exit_code, sigVars, frames,
                   frameVars, napi>>

\* run, line 100.
AddstrHelp ==
    /\ pc = "addstr_help"
    /\ ~WriteFailsAt(pc)
    /\ Store(Calling(Self, <<"addstr">>))
    /\ pc' = "refresh"
    /\ UNCHANGED <<ctl, update_interval, running, exit_code, sigVars, frames,
                   frameVars, napi>>

\* Variant of the frame that goes back to the loop test without sleeping.
Refresh_SkipsSleep ==
    /\ pc = "refresh"
    /\ Store(Calling(Self, <<"refresh">>))
    /\ pc' = "while"
    /\ UNCHANGED <<ctl, update_interval, running, exit_code, sigVars, frames,
                   frameVars, napi>>

\* run, line 103.
Refresh ==
    /\ pc = "refresh"
    /\ Store(Calling(Self, <<"refresh">>))
    /\ pc' = "sleep"
    /\ UNCHANGED <<ctl, update_interval, running, exit_code, sigVars, frames,
                   frameVars, napi>>

\* run, line 110: time.sleep is entered.
Sleep ==
    /\ pc = "sleep"
    /\ Store(Calling(Self, <<"sleep">>))
    /\ pc' = "sleeping"
    /\ UNCHANGED <<ctl, update_interval, running, exit_code, sigVars, frames,
                   frameVars, napi>>

\* Variant of the loop that sets the flag again after every sleep.
Wake_Rearms ==
    /\ pc = "sleeping"
    /\ running' = TRUE
    /\ pc' = "while"
    /\ UNCHANGED <<ctl, update_interval, ioVars, exit_code, sigVars,
                   frames, frameVars, napi>>

\* Variant of the loop that polls again after the sleep without testing
\* running.
Wake_SkipsLoopTest ==
    /\ pc = "sleeping"
    /\ pc' = "getch"
    /\ UNCHANGED <<ctl, update_interval, running, ioVars, exit_code, sigVars,
                   frames, frameVars, napi>>

\* run, line 110: the interval has elapsed and time.sleep returns.
Wake ==
    /\ pc = "sleeping"
    /\ pc' = "while"
    /\ UNCHANGED <<ctl, update_interval, running, ioVars, exit_code, sigVars,
                   frames, frameVars, napi>>

\* The display primitive called at a control point of the frame.
PrimAt(p) ==
    CASE p = "getch" -> "getch"
      [] p = "clear" -> "clear"
      [] p = "getmaxyx" -> "getmaxyx"
      [] p = "addstr_time" -> "addstr"
      [] p = "addstr_help" -> "addstr"
      [] p = "refresh" -> "refresh"

FrameCallPcs == {"getch", "clear", "getmaxyx", "addstr_time", "addstr_help", "refresh"}

\* A display primitive of the frame (lines 84-103) raises instead of
\* returning; addstr raises curses.error when and only when the write fails.
PrimRaises ==
    /\ pc \in FrameCallPcs
    /\ stdscr # "None"
    /\ \E e \in FrameErrors :
          /\ (pc \in {"addstr_time", "addstr_help"} /\ e = "curses.error") =>
                 WriteFailsAt(pc)
          /\ Store(Raising(Self, PrimAt(pc), e))
    /\ pc' = "except"
    /\ UNCHANGED <<ctl, update_interval, running, exit_code, sigVars, frames,
                   frameVars, napi>>

\* Variant of the except clauses that re-raises KeyboardInterrupt too.
ExceptClause_Reraises ==
    /\ pc = "except"
    /\ Store(Logged(Self, IF exc = "KeyboardInterrupt" THEN "info" ELSE "error"))
    /\ pc' = "finally"
    /\ UNCHANGED <<ctl, update_interval, running, exit_code, sigVars, frames,
                   frameVars, napi>>

\* Variant of the except clauses that absorbs every exception.
ExceptClause_Swallows ==
    /\ pc = "except"
    /\ Store([Logged(Self, IF exc = "KeyboardInterrupt" THEN "info" ELSE "error")
                 EXCEPT !.exc = "none"])
    /\ pc' = "finally"
    /\ UNCHANGED <<ctl, update_interval, running, exit_code, sigVars, frames,
                   frameVars, napi>>

\* run, lines 112-116: KeyboardInterrupt is absorbed, anything else is logged
\* and re-raised.
ExceptClause ==
    /\ pc = "except"
    /\ IF exc = "KeyboardInterrupt"
       THEN Store([Logged(Self, "info") EXCEPT !.exc = "none"])
       ELSE Store(Logged(Self, "error"))
    /\ pc' = "finally"
    /\ UNCHANGED <<ctl, update_interval, running, exit_code, sigVars, frames,
                   frameVars, napi>>

\* Variant of the finally block that leaves the flag as it is.
Finally_KeepsRunning ==
    /\ pc = "finally"
    /\ running' = running
    /\ LET r == cleanup_curses(Self)
       IN  IF r.raised THEN Store(r) ELSE Store(Logged(r, "info"))
    /\ pc' = "run_exit"
    /\ UNCHANGED <<ctl, update_interval, exit_code, sigVars, frames, frameVars, napi>>

\* Variant of the finally block that forgets the teardown.
Finally_SkipsCleanup ==
    /\ pc = "finally"
    /\ running' = FALSE
    /\ Store(Logged(Self, "info"))
    /\ pc' = "run_exit"
    /\ UNCHANGED <<ctl, update_interval, exit_code, sigVars, frames, frameVars, napi>>

\* run, lines 117-120: the finally block.
Finally ==
    /\ pc = "finally"
    /\ running' = FALSE
    /\ LET r == cleanup_curses(Self)
       IN  IF r.raised THEN Store(r) ELSE Store(Logged(r, "info"))
    /\ pc' = "run_exit"
    /\ UNCHANGED <<ctl, update_interval, exit_code, sigVars, frames, frameVars, napi>>

(* ------------------------------ signals ------------------------------- *)

Signals == {"SIGINT", "SIGTERM"}

Disposition(s) == IF s = "SIGINT" THEN sigint_h ELSE sigterm_h

Alive == exit_code = -1 /\ pc # "exited"

\* Where the first signal of the run arrived: the control point and the
\* number of library calls issued before it.
FirstSig == IF sigAt = NoSig THEN [pc |-> pc, n |-> Len(calls)] ELSE sigAt

\* Variant of the handler that logs and forgets the flag.
signal_handler_KeepsRunning ==
    /\ Store(Logged(Self, "info"))
    /\ running' = running

\* signal_handler, lines 33-35, run by the interpreter between two steps of
\* the main thread.
signal_handler ==
    /\ Store(Logged(Self, "info"))
    /\ running' = FALSE

\* A signal whose handler is registered is delivered.
SignalHandled ==
    /\ Alive
    /\ nsig < MaxSignals
    /\ \E s \in Signals : Disposition(s) = "handler"
    /\ signal_handler
    /\ nsig' = nsig + 1
    /\ sigAt' = FirstSig
    /\ UNCHANGED <<pc, ctl, update_interval, exit_code, sigint_h, sigterm_h,
                   frames, frameVars, napi>>

\* SIGINT before line 37: Python's default handler raises KeyboardInterrupt
\* in the main thread, outside the try block of run; `except Exception` in
\* main does not catch it and the click command aborts with status 1.
SigintDefault ==
    /\ Alive
    /\ nsig < MaxSignals
    /\ sigint_h = "default"
    /\ nsig' = nsig + 1
    /\ exc' = "KeyboardInterrupt"
    /\ stderr' = Append(stderr, "Aborted!")
    /\ exit_code' = 1
    /\ pc' = "exited"
    /\ sigAt' = FirstSig
    /\ UNCHANGED <<ctl, update_interval, running, stdscr, term, calls, nlog,
                   thrown, sigint_h, sigterm_h, frames, frameVars, napi>>

\* SIGTERM before line 38: the default disposition terminates the process.
SigtermDefault ==
    /\ Alive
    /\ nsig < MaxSignals
    /\ sigterm_h = "default"
    /\ nsig' = nsig + 1
    /\ exit_code' = ExitKilledByTerm
    /\ pc' = "exited"
    /\ sigAt' = FirstSig
    /\ UNCHANGED <<ctl, update_interval, running, ioVars, sigint_h, sigterm_h,
                   frames, frameVars, napi>>

(* ------------------------------ keyboard ------------------------------ *)

\* The user types a key while the session is open; the terminal keeps it
\* until getch polls it.
KeyPress ==
    /\ Alive
    /\ term.visual
    /\ Len(inbuf) < MaxKeys
    /\ \E k \in TypedKeys : inbuf' = Append(inbuf, k)
    /\ UNCHANGED <<pc, ctl, update_interval, running, ioVars, exit_code,
                   sigVars, frames, key, height, width, y, x, last_size, napi>>

(* --------------------------- specification ---------------------------- *)

Next ==
    \/ MainValidate
    \/ Construct
    \/ RunStart
    \/ RegisterSigint
    \/ RegisterSigterm
    \/ RunInitCurses
    \/ WhileTest
    \/ Getch
    \/ Clear
    \/ Getmaxyx
    \/ AddstrTime
    \/ AddstrHelp
    \/ Refresh
    \/ Sleep
    \/ Wake
    \/ PrimRaises
    \/ ExceptClause
    \/ Finally
    \/ MainAfterRun
    \/ SignalHandled
    \/ SigintDefault
    \/ SigtermDefault
    \/ KeyPress

Spec == Init /\ [][Next]_vars

\* The steps of the main thread that return normally.
Thread ==
    \/ MainValidate
    \/ Construct
    \/ RunStart
    \/ RegisterSigint
    \/ RegisterSigterm
    \/ RunInitCurses
    \/ WhileTest
    \/ Getch
    \/ Clear
    \/ Getmaxyx
    \/ AddstrTime
    \/ AddstrHelp
    \/ Refresh
    \/ Sleep
    \/ Wake
    \/ ExceptClause
    \/ Finally
    \/ MainAfterRun

\* The main thread is a running process: it takes its next step when it has
\* one, and a write that cannot succeed raises.  Signals, key presses and the
\* other failures of the library are up to the environment.  The command
\* line is the default one: whether the loop ends does not depend on it.
InitFair ==
    /\ pc = "main"
    /\ interval = DefaultInterval
    /\ verbose = FALSE
    /\ update_interval = 0
    /\ InitCommon

SpecFair ==
    /\ InitFair
    /\ [][Next]_vars
    /\ WF_vars(Thread)
    /\ WF_vars(PrimRaises /\ WriteFailsAt(pc))

(* ------------------- the methods called directly --------------------- *)

InitApi ==
    /\ pc = "api"
    /\ interval = DefaultInterval
    /\ verbose \in BOOLEAN
    /\ update_interval = DefaultInterval
    /\ InitCommon

\* monitor.init_curses() called by a test or another caller; the caller
\* sees the exception, if any, in exc.
ApiInitCurses ==
    /\ pc = "api"
    /\ napi < MaxApiCalls
    /\ \E i \in InitscrOutcomes, o \in InitOutcomes :
          Store(init_curses([Self EXCEPT !.exc = "none"], i, o))
    /\ napi' = napi + 1
    /\ UNCHANGED <<pc, ctl, update_interval, running, exit_code, sigVars,
                   frames, frameVars>>

\* monitor.cleanup_curses() called by a test or another caller.
ApiCleanupCurses ==
    /\ pc = "api"
    /\ napi < MaxApiCalls
    /\ Store(cleanup_curses([Self EXCEPT !.exc = "none"]))
    /\ napi' = napi + 1
    /\ UNCHANGED <<pc, ctl, update_interval, running, exit_code, sigVars,
                   frames, frameVars>>

NextApi ==
    \/ ApiInitCurses
    \/ ApiCleanupCurses

SpecApi == InitApi /\ [][NextApi]_vars

(* ------------------------------ claims -------------------------------- *)

\* run() has returned or raised.
RunEnded == pc \in {"run_exit", "exited"} /\ Has(calls, "initscr")

\* The frame primitives issued after the first n calls.
PrimsAfter(n) == {i \in (n + 1)..Len(calls) : calls[i] \in FramePrims}

\* The last frame primitive issued, if any, is a key poll.
LastPrimIsGetch ==
    \A i \in 1..Len(calls) :
        calls[i] \in FramePrims => \E j \in i..Len(calls) : calls[j] = "getch"

LastCall == IF calls = <<>> THEN "none" ELSE calls[Len(calls)]

\* C1: whenever run() has ended after initscr returned a screen (quit key,
\* running cleared by a signal, KeyboardInterrupt or an error raised by a
\* step), cleanup_curses has torn the session down exactly once and raw mode
\* is off; while run() is still in the loop no teardown has happened.
C1_CleanupExactlyOnce ==
    /\ (RunEnded /\ stdscr = "win") =>
           Count(calls, "endwin") = 1 /\ ~RawMode(term)
    /\ pc \in FrameCallPcs \cup {"while", "sleep", "sleeping", "except", "finally"} =>
           Count(calls, "endwin") = 0

C1_Witness ==
    /\ pc = "run_exit"
    /\ frames = 2
    /\ thrown = "KeyboardInterrupt"
    /\ Count(calls, "endwin") = 1

\* C2: once getch has returned 'q' or 'Q', in the first iteration or a later
\* one, no clear, addstr, refresh or sleep follows that poll; run() goes
\* straight to its exit path and returns normally with running false.
C2_QuitBeforeRender ==
    key \in {KEY_q, KEY_Q} =>
        /\ pc \in {"finally", "run_exit", "exited"}
        /\ LastPrimIsGetch
        /\ frames = 1 => PrimsAfter(0) = {i \in 1..Len(calls) : calls[i] = "getch"}
        /\ pc \in {"run_exit", "exited"} => exc = "none" /\ ~running

C2_Witness ==
    /\ key = KEY_Q
    /\ frames = 1
    /\ pc = "run_exit"
    /\ Has(calls, "getch")

\* Control points of run() after it has been invoked.
AfterRunInvoked ==
    {"reg_int", "reg_term", "init", "while", "sleep", "sleeping", "except",
     "finally"} \cup FrameCallPcs

\* Control points at which both handlers are registered.
AfterRegistration == AfterRunInvoked \ {"reg_int", "reg_term"}

\* C3 as stated: a signal delivered at any moment after run() was invoked,
\* no library call failing, ends the process like the quit key: no exception,
\* session closed, exit code 0.
C3_Original ==
    (pc = "exited" /\ sigAt.pc \in AfterRunInvoked /\ thrown = "none") =>
        exit_code = 0 /\ exc = "none" /\ ~RawMode(term)

\* C3 (amended): a SIGINT or SIGTERM delivered once both handlers are
\* registered (during the open, a frame or the sleep) ends the process like
\* the quit key, provided no library call fails: run() ends without an
\* exception, the session is closed, running is false and the exit code is 0.
C3_HandledSignalQuits ==
    (pc = "exited" /\ sigAt.pc \in AfterRegistration /\ thrown = "none") =>
        exit_code = 0 /\ exc = "none" /\ ~RawMode(term) /\ ~running

C3_Witness ==
    /\ pc = "exited"
    /\ sigAt.pc = "init"
    /\ thrown = "none"
    /\ exit_code = 0
    /\ LastCall = "endwin"

\* A step in which a registered handler ran.
HandlerStep == nsig' = nsig + 1 /\ exit_code' = -1 /\ pc' # "exited"

C5_SignalDuringSleep ==
    sigAt.pc = "sleeping" =>
        /\ PrimsAfter(sigAt.n) = {}
        /\ pc \in {"sleeping", "while", "finally", "run_exit", "exited"}
        /\ pc \in {"run_exit", "exited"} => LastCall = "endwin" /\ ~RawMode(term)

C5_Witness ==
    /\ sigAt.pc = "sleeping"
    /\ pc = "run_exit"
    /\ LastCall = "endwin"

\* C6: when a display primitive of a frame raises curses.error, the session
\* is closed before run() re-raises that same error, and main prints its
\* "Error: " message only once the terminal is restored, then exits with 1.
C6_TeardownBeforePropagate ==
    (frames >= 1 /\ thrown = "curses.error") =>
        /\ pc = "run_exit" =>
               exc = "curses.error" /\ ~RawMode(term) /\ Count(calls, "endwin") = 1
        /\ Has(stderr, "Error: curses.error") =>
               ~RawMode(term) /\ pc = "exited" /\ exit_code = 1
        /\ pc = "exited" => Has(stderr, "Error: curses.error")

C6_Witness ==
    /\ frames >= 1
    /\ thrown = "curses.error"
    /\ pc = "exited"
    /\ Has(stderr, "Error: curses.error")

\* C7: when initscr yields no screen, run() never enters the loop: no key is
\* polled, nothing is cleared, written or refreshed, no sleep is taken, and
\* run() raises the failure with running false.
C7_OpenFailureSkipsLoop ==
    (Has(calls, "initscr") /\ stdscr = "None") =>
        /\ frames = 0
        /\ PrimsAfter(0) = {}
        /\ pc = "run_exit" => exc = thrown /\ exc # "none" /\ ~running
        /\ pc = "exited" => exit_code = 1

C7_Witness ==
    /\ pc = "run_exit"
    /\ stdscr = "None"
    /\ exc = "RuntimeError"
    /\ ~running

\* initscr returned a screen and a later call of init_curses raised.
PartialOpen ==
    stdscr = "win" /\ frames = 0 /\ thrown = "curses.error"

C9_Original ==
    /\ Count(calls, "endwin") <= Count(calls, "initscr")
    /\ LastCall \in {"nocbreak", "endwin"} => exc = "none"

\* A step that closes a fully opened session.
CloseAfterOpen == term.visual /\ term.cursor = 0 /\ ~term'.visual

\* C10 as stated: every setting init_curses changed is put back by an
\* explicit call of cleanup_curses, the cursor included.
C10_Original ==
    [][CloseAfterOpen =>
          \E i \in (Len(calls) + 1)..Len(calls') : calls'[i] = "curs_set(1)"]_vars

\* C10 (amended): cleanup_curses explicitly undoes cbreak, keypad and noecho
\* (nocbreak, keypad(False), echo) and then calls endwin; it makes no call
\* for the cursor, whose visibility comes back with endwin's return to shell
\* mode.  After the close echo is on, input is canonical, keypad mode is off
\* and the cursor is visible.
C10_OpenCloseRoundTrip ==
    [][CloseAfterOpen =>
          /\ calls' = calls \o <<"nocbreak", "keypad(False)", "echo", "endwin">>
          /\ term'.echo /\ ~term'.cbreak /\ ~term'.keypad /\ term'.cursor = 1
          /\ term'.echo = ShellTerm.echo /\ term'.cbreak = ShellTerm.cbreak
          /\ exc' = "none"]_vars

C10_Witness ==
    /\ napi = 2
    /\ thrown = "none"
    /\ calls = <<"initscr">> \o InitCalls \o <<"nocbreak", "keypad(False)", "echo", "endwin">>
    /\ term.cursor = 1
    /\ term.echo

\* C11: within one run() the running flag never goes back to true: once
\* the quit logic, the handler or the finally block has cleared it after
\* run() set it, it stays false.
C11_RunningMonotonic ==
    [][(pc \notin {"main", "construct", "run"} /\ ~running) => ~running']_vars

C11_Witness ==
    /\ pc = "getmaxyx"
    /\ ~running
    /\ sigAt.pc = "clear"

\* run() has ended; a process killed by SIGTERM never left run().
RunLeft ==
    \/ pc = "run_exit"
    \/ pc = "exited" /\ exit_code # ExitKilledByTerm /\ update_interval # 0

\* C12 as stated: running is false before run() is invoked and on every way
\* out of run().
C12_Original ==
    /\ pc \in {"main", "construct", "run"} => ~running
    /\ RunLeft => ~running

\* C12 (amended): running is false before run() is invoked and whenever
\* run() has ended through its try block (quit key, handled signal,
\* KeyboardInterrupt raised in the loop, open failure, error raised by a
\* frame); a SIGINT arriving between line 75 and line 37 leaves run() by
\* KeyboardInterrupt with running still true.
C12_StoppedOutsideRun ==
    /\ pc \in {"main", "construct", "run"} => ~running
    /\ (RunLeft /\ exc # "KeyboardInterrupt") => ~running
    /\ (RunLeft /\ exc = "KeyboardInterrupt") => (running <=> sigAt.pc = "reg_int")

C12_Witness ==
    /\ pc = "run_exit"
    /\ thrown = "KeyboardInterrupt"
    /\ frames = 1
    /\ ~running

\* C13: an interval <= 0 ends main with exit code 1 after the message
\* "Error: Interval must be greater than 0"; no TimeMonitor is constructed,
\* no handler is registered and no curses call is ever made.
C13_InvalidIntervalRejected ==
    interval <= 0 =>
        /\ pc \in {"main", "exited"}
        /\ update_interval = 0 /\ ~running /\ stdscr = "None"
        /\ sigint_h = "default" /\ sigterm_h = "default"
        /\ calls = <<>> /\ term = ShellTerm
        /\ (pc = "exited" /\ nsig = 0) =>
               /\ exit_code = 1
               /\ Count(stderr, "Error: Interval must be greater than 0") = 1

C13_Witness ==
    /\ interval = 0
    /\ pc = "exited"
    /\ exit_code = 1
    /\ Has(stderr, "Error: Interval must be greater than 0")

\* The process was ended by a signal no handler was registered for.
EndedBySignal ==
    pc = "exited" /\ (exit_code = ExitKilledByTerm \/ exc = "KeyboardInterrupt")

ErrorMessages ==
    {"Error: Interval must be greater than 0",
     "Error: Failed to initialize curses", "Error: curses.error"}

\* C14: when main ends by itself, the exit code is 0 exactly when the
\* interval was valid and run() returned normally, and 1 exactly when the
\* interval was invalid or run() raised; with exit code 1, and only then, a
\* message starting with "Error: " is the last thing main wrote to stderr.
C14_ExitCodes ==
    (pc = "exited" /\ ~EndedBySignal) =>
        /\ exit_code \in {0, 1}
        /\ exit_code = 0 <=> (interval > 0 /\ exc = "none")
        /\ exit_code = 1 <=> (interval <= 0 \/ exc \in {"RuntimeError", "curses.error"})
        /\ exit_code = 0 => thrown \in {"none", "KeyboardInterrupt"}
        /\ exit_code = 0 => \A i \in 1..Len(stderr) : stderr[i] \notin ErrorMessages
        /\ exit_code = 1 =>
               \E i \in 1..Len(stderr) :
                   /\ stderr[i] \in ErrorMessages
                   /\ \A j \in (i + 1)..Len(stderr) : stderr[j] = "log"

C14_Witness ==
    /\ pc = "exited"
    /\ exit_code = 1
    /\ interval > 0
    /\ exc = "RuntimeError"
    /\ Has(stderr, "Error: Failed to initialize curses")

\* C15: a KeyboardInterrupt raised by a call inside the loop does not leave
\* run(): the session is closed, running is false, run() returns normally
\* and main exits with 0.
C15_KeyboardInterruptAbsorbed ==
    (thrown = "KeyboardInterrupt" /\ pc \in {"run_exit", "exited"}) =>
        /\ exc = "none"
        /\ ~running
        /\ ~RawMode(term)
        /\ Count(calls, "endwin") = 1
        /\ pc = "exited" => exit_code = 0

C15_Witness ==
    /\ thrown = "KeyboardInterrupt"
    /\ pc = "exited"
    /\ exit_code = 0
    /\ LastCall = "endwin"

\* The calls of one complete iteration, in program order.
FrameCalls == <<"getch", "clear", "getmaxyx", "addstr", "addstr", "refresh", "sleep">>

RECURSIVE Repeat(_, _)
Repeat(cs, n) == IF n = 0 THEN <<>> ELSE cs \o Repeat(cs, n - 1)

\* The calls of a successful open.
OpenCalls ==
    <<"initscr", "noecho", "cbreak", "keypad(True)", "nodelay(True)", "curs_set(0)">>

\* C16: each iteration polls one key at most; a result other than 'q' / 'Q'
\* (another key or no key) does not stop the loop: the frame is cleared,
\* written, refreshed and the loop sleeps and comes back to its test.  When
\* the quit key is polled in iteration n, exactly n - 1 frames were rendered
\* (one frame for the keys [other, q]).
C16_OtherKeysContinue ==
    (stdscr = "win" /\ thrown = "none" /\ frames >= 1) =>
        /\ Count(calls, "getch") \in {frames - 1, frames}
        /\ pc \in {"clear", "getmaxyx", "addstr_time", "addstr_help", "refresh",
                   "sleep", "sleeping"} => key \notin {KEY_q, KEY_Q}
        /\ pc = "while" => calls = OpenCalls \o Repeat(FrameCalls, frames)
        /\ (pc \in {"finally", "run_exit", "exited"} /\ key \notin {KEY_q, KEY_Q}) =>
               sigAt # NoSig
        /\ key \in {KEY_q, KEY_Q} =>
               /\ Count(calls, "refresh") = frames - 1
               /\ Count(calls, "clear") = frames - 1
               /\ Count(calls, "addstr") = 2 * (frames - 1)
               /\ Count(calls, "getch") = frames

C16_Witness ==
    /\ frames = 2
    /\ key = KEY_q
    /\ thrown = "none"
    /\ pc = "run_exit"
    /\ Count(calls, "refresh") = 1
    /\ sigAt = NoSig

\* The frame has computed where the timestamp goes.
Positioned == pc \in {"addstr_time", "addstr_help", "refresh", "sleep", "sleeping"}

\* C17: for the size (rows, cols) the frame has just queried, the 23-character
\* timestamp is written at row rows div 2 and column (cols - 23) div 2, or
\* column 0 when cols <= 23; the column is never negative, and for 24 rows
\* and 80 columns the position is (12, 28).
C17_Centering ==
    Positioned =>
        /\ 2 * y <= height /\ height <= 2 * y + 1
        /\ width <= 23 => x = 0
        /\ width > 23 => (2 * x <= width - 23 /\ width - 23 <= 2 * x + 1)
        /\ x >= 0
        /\ (height = 24 /\ width = 80) => (y = 12 /\ x = 28)

C17_Witness ==
    /\ pc = "addstr_help"
    /\ height = 10
    /\ width = 20
    /\ y = 5
    /\ x = 0

\* C18: an interval with 0 < interval < 0.001 is not rejected: the warning is
\* on stderr, once, before the TimeMonitor is constructed and so before the
\* session is opened and the loop starts, and run() is entered; for an
\* interval >= 0.001 (or an invalid one) no warning is ever written.
C18_SmallIntervalWarning ==
    LET warning == "Warning: Very small intervals may cause high CPU usage"
    IN  /\ (0 < interval /\ interval < 10) =>
               /\ \A i \in 1..Len(stderr) :
                      stderr[i] # "Error: Interval must be greater than 0"
               /\ (pc # "main" /\ update_interval # 0) => Count(stderr, warning) = 1
               /\ (calls # <<>> \/ frames > 0 \/ running) => Count(stderr, warning) = 1
               /\ pc = "construct" => Count(stderr, warning) = 1
               /\ Count(calls, "initscr") <= 1
        /\ (interval >= 10 \/ interval <= 0) => Count(stderr, warning) = 0

C18_Witness ==
    /\ interval = 5
    /\ frames = 1
    /\ pc = "refresh"
    /\ Has(stderr, "Warning: Very small intervals may cause high CPU usage")

\* C19 as stated: running is true only while a session is open.
C19_Original ==
    running => (stdscr = "win" /\ term.visual)

\* C19 (amended): running becomes true at the start of run() (line 75),
\* before the handlers are registered and before the session is opened; it
\* is set once per run, while no session exists, and when the open fails
\* with no signal delivered it is still true on the way to the finally block.
C19_RunningSetAtRunStart ==
    [][/\ (~running /\ running') =>
              (pc = "run" /\ pc' = "reg_int" /\ stdscr = "None" /\ calls = <<>>)
       /\ (pc = "run" /\ pc' = "reg_int") => running'
       /\ (pc = "init" /\ pc' = "except" /\ sigAt = NoSig) => (running /\ running')
      ]_vars

C19_Witness ==
    /\ running
    /\ pc = "init"
    /\ stdscr = "None"
    /\ sigint_h = "handler"

\* The calls named c issued after the first signal arrived.
CallsAfterSignal(c) == Cardinality({i \in (sigAt.n + 1)..Len(calls) : calls[i] = c})

\* C20: after a handled signal, at most one more key is polled, at most one
\* more frame is refreshed and at most one more sleep is taken; the loop
\* then ends at its test and the session is closed when run() ends.
C20_BoundedAfterSignal ==
    (sigAt # NoSig /\ sigAt.pc \in AfterRegistration) =>
        /\ CallsAfterSignal("getch") <= 1
        /\ CallsAfterSignal("clear") <= 1
        /\ CallsAfterSignal("refresh") <= 1
        /\ CallsAfterSignal("sleep") <= 1
        /\ ~running
        /\ (pc = "while" /\ sigAt.pc # "while") => CallsAfterSignal("getch") <= 1
        /\ pc \in {"run_exit", "exited"} =>
               (stdscr = "win" => LastCall = "endwin" /\ ~RawMode(term))

C20_Witness ==
    /\ sigAt.pc = "getch"
    /\ pc = "run_exit"
    /\ CallsAfterSignal("getch") = 1
    /\ CallsAfterSignal("sleep") = 1
    /\ thrown = "none"
    /\ key = NoKey

\* The calls issued inside the loop: those after the six calls of the open
\* and before the first call of the teardown.
LoopCalls ==
    LET closing == {i \in 1..Len(calls) : calls[i] = "nocbreak"}
        last == IF closing = {} THEN Len(calls)
                ELSE (CHOOSE i \in closing : \A j \in closing : i <= j) - 1
    IN  IF Len(calls) <= 6 THEN <<>> ELSE SubSeq(calls, 7, last)

\* The control point that follows p inside one iteration.
NextInFrame(p) ==
    CASE p = "clear" -> "getmaxyx"
      [] p = "getmaxyx" -> "addstr_time"
      [] p = "addstr_time" -> "addstr_help"
      [] p = "addstr_help" -> "refresh"
      [] p = "refresh" -> "sleep"
      [] p = "sleep" -> "sleeping"
      [] p = "sleeping" -> "while"
      [] OTHER -> "none"

\* The calls of the loop follow the cycle poll, clear, size query, two
\* writes, refresh, sleep, whatever the run does.
LoopCallsInOrder ==
    /\ \A i \in 1..Len(LoopCalls) :
           LoopCalls[i] =
               <<"getch", "clear", "getmaxyx", "addstr", "addstr", "refresh",
                 "sleep">>[((i - 1) % 7) + 1]
    /\ Len(LoopCalls) <= 7 * frames
    /\ frames >= 1 => Len(LoopCalls) >= 7 * (frames - 1)

\* C21: frames never overlap and keep one order: poll, clear, size query,
\* timestamp, instruction line, refresh, sleep; a poll other than the first
\* directly follows the one sleep that follows the previous refresh; and an
\* iteration once past its poll goes on to its next step whatever the value
\* of running, which decides only at the loop test.
C21_FrameOrder ==
    /\ []LoopCallsInOrder
    /\ [][/\ (NextInFrame(pc) # "none" /\ pc' # pc /\ pc' # "except") =>
                 pc' = NextInFrame(pc)
          /\ (pc' = "getch" /\ pc # "getch") => (pc = "while" /\ running)
          /\ (pc = "while" /\ pc' = "finally") => ~running
         ]_vars

C21_Witness ==
    /\ pc = "sleeping"
    /\ frames = 2
    /\ ~running
    /\ sigAt.pc = "addstr_time"
    /\ calls = OpenCalls \o Repeat(FrameCalls, 2)

\* C22 as stated: on a terminal (of at least one row and one column)
\* narrower than the 23-character timestamp the two writes of the frame do not raise: the timestamp goes to column 0
\* and the frame goes on to its refresh instead of the failure path (a
\* KeyboardInterrupt apart).
C22_Original ==
    [][(/\ pc \in {"addstr_time", "addstr_help"}
        /\ 0 < width /\ width < 23
        /\ 0 < height
        /\ pc' # pc
        /\ thrown' # "KeyboardInterrupt") =>
           /\ x = 0
           /\ thrown' = "none"
           /\ pc' \in {"addstr_help", "refresh"}]_vars

\* C23: the size is queried once in every frame that gets to its writes,
\* and the position the frame writes at comes from the size that query
\* returned: when the terminal was resized since the frame before, the row
\* and the column are those of the new size, not of the old one.
C23_SizeRequeried ==
    Positioned =>
        /\ Count(calls, "getmaxyx") = frames
        /\ frames = 1 => last_size = <<0, 0>>
        /\ y = height \div 2
        /\ x = (IF width <= 23 THEN 0 ELSE (width - 23) \div 2)
        /\ (last_size[1] \div 2 # height \div 2) => y # last_size[1] \div 2
        /\ (last_size = <<24, 80>> /\ width <= 23) => x # 28

C23_Witness ==
    /\ pc = "addstr_time"
    /\ frames = 2
    /\ last_size = <<24, 80>>
    /\ height = 10
    /\ width = 20
    /\ y = 5
    /\ x = 0

\* C24 as stated: whatever size (rows >= 0, cols >= 0) the frame has
\* queried, the timestamp position (y, x) and the instruction-line position
\* (rows - 2, 0) it is about to write at have a row >= 0 and a column >= 0.
C24_Original ==
    (pc \in {"addstr_time", "addstr_help"} /\ height >= 0 /\ width >= 0) =>
        /\ y >= 0
        /\ x >= 0
        /\ pc = "addstr_help" => HelpRow(height) >= 0

\* Control points inside the loop.
InLoop ==
    pc \in {"while", "getch", "clear", "getmaxyx", "addstr_time", "addstr_help",
            "refresh", "sleep", "sleeping"}

\* C25: after a successful open run() leaves its loop only for a reason:
\* the last poll returned 'q' or 'Q', a signal handler cleared running, or a
\* step raised.  As long as none of them has happened the loop is still
\* running: the flag is true and the loop test sends it into another frame.
C25_StopsOnlyOnCondition ==
    /\ []((pc \in {"finally", "run_exit"} /\ stdscr = "win") =>
             \/ key \in {KEY_q, KEY_Q}
             \/ sigAt # NoSig /\ nsig > 0
             \/ thrown # "none")
    /\ []((InLoop /\ sigAt = NoSig) => (running /\ thrown = "none" /\ exc = "none"))
    /\ [][(pc = "while" /\ running /\ pc' # pc) => (pc' = "getch" /\ frames' = frames + 1)]_vars

C25_Witness ==
    /\ pc = "run_exit"
    /\ stdscr = "win"
    /\ frames = 2
    /\ key = KEY_A
    /\ thrown = "none"
    /\ sigAt.pc = "sleeping"

\* A handler has run: the termination request was delivered to the program.
Requested == sigAt # NoSig /\ sigAt.pc \in AfterRegistration /\ exit_code = -1

\* A quit key waits in the input buffer and the model has iterations left
\* to poll it (one key is polled per iteration).
QuitBuffered ==
    \E i \in 1..Len(inbuf) : inbuf[i] \in {KEY_q, KEY_Q} /\ frames + i <= MaxFrames

\* run() has ended with running false and the terminal given back.
Stopped ==
    /\ pc \in {"run_exit", "exited"}
    /\ ~running
    /\ ~term.visual
    /\ ~RawMode(term)

\* C26: as long as the main thread keeps being scheduled, a quit key typed
\* into the input buffer, or a signal delivered to the handler, leads to
\* run() having ended with running false and the session closed: the loop
\* neither spins nor blocks for ever after a stop condition.
C26_EventuallyStopped == (Requested \/ QuitBuffered) ~> Stopped

C26_Witness ==
    /\ Stopped
    /\ pc = "run_exit"
    /\ key = KEY_Q
    /\ frames = 2
    /\ sigAt = NoSig
    /\ thrown = "none"
    /\ inbuf = <<>>

\* The display and input primitives of the frame.
DisplayPrims == {"getch", "clear", "getmaxyx", "addstr", "refresh"}

\* C27: getch, clear, getmaxyx, addstr and refresh are called only while
\* the session is open: every such call comes after the six calls of a
\* successful init_curses and before the first call of cleanup_curses, and it
\* is made with a screen, the terminal in visual mode and nothing raised so
\* far; none is made before the open, after the close or after a failed open.
C27_PrimsOnlyWhileOpen ==
    /\ [](\A i \in 1..Len(calls) :
             calls[i] \in DisplayPrims =>
                 /\ i > 6
                 /\ SubSeq(calls, 1, 6) =
                        <<"initscr", "noecho", "cbreak", "keypad(True)",
                          "nodelay(True)", "curs_set(0)">>
                 /\ \A j \in 1..i :
                        calls[j] \notin {"nocbreak", "keypad(False)", "echo", "endwin"})
    /\ [][(Len(calls') > Len(calls) /\ calls'[Len(calls')] \in DisplayPrims) =>
              /\ stdscr = "win"
              /\ term.visual /\ term.nodelay /\ ~term.echo
              /\ thrown = "none"
              /\ Len(calls') = Len(calls) + 1]_vars

C27_Witness ==
    /\ pc = "exited"
    /\ exit_code = 0
    /\ Count(calls, "refresh") = 2
    /\ Count(calls, "endwin") = 1
    /\ LastCall = "endwin"

====
